---- MODULE Spec2Model ----
(***************************************************************************)
(* Model of the EduPlanner multi-agent lesson-plan pipeline.               *)
(*                                                                         *)
(*   eduplanner_integrated/server.py : rubric parser, retention queue,     *)
(*                                     fixed-count optimization loop       *)
(*   eduplanner/main.py              : threshold-controlled session        *)
(*   eduplanner/agents/skilltree.py  : skill profile generate / update     *)
(*   eduplanner/llm_connector.py     : the generation client               *)
(*                                                                         *)
(* Lesson-plan texts are opaque to the program.  A text is a record        *)
(* [kind, id]: kind "lp" is a completion (id tells completions apart),     *)
(* kind "error" is the "LLM_ERROR: ..." string of server.py call_llm,      *)
(* kind "none" is Python's None.                                           *)
(***************************************************************************)
EXTENDS Integers, Sequences, FiniteSets

VARIABLES
    \* ---- server.py: OptimizerAgent and run_optimization_core
    queue,          \* OptimizerAgent.queue: sequence of [lp, score]
    inserted,       \* history: every (lp, score) passed to _update_queue, in order
    cpc,            \* position in run_optimization_core
    max_iterations, \* parameter of run_optimization_core
    it,             \* loop variable i (number of completed loop bodies)
    current_lp,
    best_lp,
    best_score,
    feedback_f,     \* feedback of the last evaluation
    calls,          \* history: the agent calls issued, in order
    failed_eval,    \* history: iteration (from 1) of the first evaluator call
                    \* for which call_llm reported a request failure; 0 if none
    all_failed,     \* history: every call_llm so far reported a request failure
    response,       \* what optimize_lesson_route answered
    \* ---- server.py: one call of parse_ciddp_output
    parse_phase,    \* "in" before the call, "out" after it
    parse_text,     \* the text passed in
    parse_ret,      \* [score, feedback, scores] returned
    parse_raised,   \* an exception left parse_ciddp_output
    \* ---- server.py: one pass of lines 223-224 of run_optimization_core
    sel_phase,      \* "in" before select_analyst_question, "out" after
    questions_data, \* the bank: a sequence of [topic, question]
    lesson_topic,
    analyst_q_data, \* what select_analyst_question returned
    analyst_q_text,
    \* ---- main.py: the grading loop of one quiz POST
    grade_phase,    \* "in" before the loop, "out" after it
    grade_key,      \* whether the API key is set
    grade_calls,    \* per question: the exchange and text of the grader call
    grade_rets,     \* what grade_answer returned for the questions graded
    grade_count,    \* correct_count of the loop
    grade_accuracy, \* quiz_accuracy: correct_count / total_questions
    \* ---- llm_connector.py / skilltree.py: one call, inputs and results
    aphase,         \* "in" before the call, "out" after it
    api_in,         \* [key, cond, content]: credential, HTTP exchange, completion
    api_out,        \* what LLMConnector._call_api returned
    gen_out,        \* what SkillTreeAgent.generate returned
    tphase,         \* "in" before update_tree, "out" after it
    tree_in,        \* the mapping passed to update_tree
    acc_in,         \* the quiz accuracy passed to update_tree
    tree_arg,       \* the argument object once update_tree has returned
    tree_ret,       \* the mapping update_tree returned
    \* ---- main.py: one browser session and the process handler
    api_key,        \* whether OPENROUTER_API_KEY is set (llm_connector.API_KEY)
    s_has,          \* the keys the Flask session holds
    s_level,
    s_questions,    \* len(session['questions']); 0 for None or an empty list
    s_final_lesson_plan,
    s_final_cidpp_score,
    s_current_skill_tree,
    s_iterations_run,
    s_quiz_accuracy,
    ppc,            \* position in process; "idle" between requests
    runs,           \* requests to process served since the session was
                    \* last cleared (explored up to MaxRuns)
    iteration,
    lesson_plan,
    final_cidpp_score,      \* in tenths: 8.0 is 80
    current_skill_tree,
    final_lesson_plan,
    error_dict,     \* what AnalystAgent.analyze returned
    p_result,       \* how the last request to process ended
    pcalls,         \* history: the LLM calls of the process run
    evals,          \* history: [plan, score] of every successful evaluation
    qpc,            \* position in quiz: "grading" during the loop of a POST
    quiz_i,         \* loop variable i of quiz
    correct_count,
    rendered,       \* what final_plan rendered, if it served the last request
    session_logs    \* history: records save_session_log wrote since the
                    \* session was last cleared (counted up to MaxLogs)

queueVars == <<queue, inserted>>
coreVars  == <<cpc, max_iterations, it, current_lp, best_lp, best_score, feedback_f,
               calls, failed_eval, all_failed, response>>
parseVars  == <<parse_phase, parse_text, parse_ret, parse_raised>>
selectVars == <<sel_phase, questions_data, lesson_topic, analyst_q_data, analyst_q_text>>
gradeVars  == <<grade_phase, grade_key, grade_calls, grade_rets, grade_count,
               grade_accuracy>>
utilVars   == <<parseVars, selectVars, gradeVars>>
apiVars   == <<aphase, api_in, api_out, gen_out>>
treeVars  == <<tphase, tree_in, acc_in, tree_arg, tree_ret>>
sessVars  == <<s_has, s_level, s_questions, s_final_lesson_plan,
               s_final_cidpp_score, s_current_skill_tree, s_iterations_run,
               s_quiz_accuracy>>
procVars  == <<ppc, runs, iteration, lesson_plan, final_cidpp_score,
               current_skill_tree, final_lesson_plan, error_dict, p_result,
               pcalls, evals>>
quizVars  == <<qpc, quiz_i, correct_count>>
mainVars  == <<api_key, sessVars, procVars, quizVars, rendered, session_logs>>
vars == <<queueVars, coreVars, apiVars, treeVars, mainVars, utilVars>>

----------------------------------------------------------------------------
(* Bounds of the model *)

\* longest sequence of _update_queue calls explored
MaxInserts == 6
\* largest max_iterations explored for run_optimization_core
MaxIter == 4
\* largest skill score a model completion or an update_tree input carries
MaxGivenScore == 6
\* largest number of quiz questions behind an accuracy passed to update_tree
MaxAccuracyDen == 5
\* session_logs counts the records of a session up to this many
MaxLogs == 2
\* requests to process explored between two clearings of the session
MaxRuns == 2
\* longest text, in lines, handed to parse_ciddp_output besides the full rubrics
MaxLines == 3
\* largest of the small points values on a rubric line
MaxPoints == 2
\* the largest quotient a float holds, as the model counts it: it stands for
\* sys.float_info.max (about 1.8 * 10^308), which is beyond the integers of
\* the model checker
FloatMax == 1000
\* largest question bank handed to select_analyst_question
MaxBank == 3

----------------------------------------------------------------------------
(* Values *)

Lp(k)    == [kind |-> "lp", id |-> k]
LlmError == [kind |-> "error", id |-> 0]
NoneText == [kind |-> "none", id |-> 0]

\* Python values that are not texts: None and a dict (val: its mapping)
PyNone    == [kind |-> "none"]
PyDict(f) == [kind |-> "dict", val |-> f]
IsNone(v) == v.kind = "none"

\* a quiz accuracy correct_count / total_questions, kept as the fraction
Accuracy(c, t) == [num |-> c, den |-> t]

EmptyDict == [n \in {} |-> 0]

\* parse_ciddp_output's feedback when the text has no "Advantage:"
NoSummary == "No summary feedback provided."

\* lesson_plan = "", and session.get('final_lesson_plan', "No plan found.")
EmptyText   == [kind |-> "empty", id |-> 0]
NoPlanFound == [plan |-> [kind |-> "noplan", id |-> 0], tips |-> FALSE]

\* a local variable that no statement has assigned yet
Unassigned == [kind |-> "unassigned"]

Min(a, b) == IF a <= b THEN a ELSE b

Range(s) == {s[k] : k \in DOMAIN s}

----------------------------------------------------------------------------
(* server.py: OptimizerAgent retention queue *)

\* self.queue_capacity = 5
queue_capacity == 5

\* list.sort(key=score, reverse=True) is stable: an element goes after every
\* element whose score is greater than or equal to its own.
InsertDesc(sorted, e) ==
    LET ahead == {k \in 1..Len(sorted) : sorted[k].score >= e.score}
        p == Cardinality(ahead)
    IN  SubSeq(sorted, 1, p) \o <<e>> \o SubSeq(sorted, p + 1, Len(sorted))

RECURSIVE SortByScoreDesc(_)
SortByScoreDesc(s) ==
    IF s = <<>> THEN <<>>
    ELSE InsertDesc(SortByScoreDesc(SubSeq(s, 1, Len(s) - 1)), s[Len(s)])

\* the same, without reverse=True
InsertAsc(sorted, e) ==
    LET ahead == {k \in 1..Len(sorted) : sorted[k].score <= e.score}
        p == Cardinality(ahead)
    IN  SubSeq(sorted, 1, p) \o <<e>> \o SubSeq(sorted, p + 1, Len(sorted))

RECURSIVE SortByScoreAsc(_)
SortByScoreAsc(s) ==
    IF s = <<>> THEN <<>>
    ELSE InsertAsc(SortByScoreAsc(SubSeq(s, 1, Len(s) - 1)), s[Len(s)])

\* self.queue[:self.queue_capacity]
Truncate(s, n) == SubSeq(s, 1, Min(Len(s), n))

UpdateQueueAscending(q, new_lp, new_score) ==
    Truncate(SortByScoreAsc(Append(q, [lp |-> new_lp, score |-> new_score])),
             queue_capacity)

\* OptimizerAgent._update_queue
UpdateQueue(q, new_lp, new_score) ==
    Truncate(SortByScoreDesc(Append(q, [lp |-> new_lp, score |-> new_score])),
             queue_capacity)

----------------------------------------------------------------------------
(* llm_connector.py: LLMConnector._call_api *)

\* What the HTTP exchange of one _call_api can do:
\*   "ok"           status 200 and choices[0].message.content is there
\*   "status"       a status code other than 200
\*   "no_choices"   a 200 body without 'choices' (or with an empty list)
\*   "timeout"      requests.exceptions.Timeout
\*   "transport"    another requests.exceptions.RequestException
\*   "bad_envelope" anything else raised (body not JSON, no message/content)
ApiConditions == {"ok", "status", "no_choices", "timeout", "transport",
                  "bad_envelope"}

\* A completion: its text, whether the text is valid JSON and, if so, the
\* value json.loads gives for it ("null" loads as None).
Json(t, v) == [json |-> TRUE, text |-> t, val |-> v]
Prose(t)   == [json |-> FALSE, text |-> t, val |-> PyNone]

CallApiJsonErrorLeaks(key, cond, content, is_json) ==
    IF ~key THEN PyNone
    ELSE IF cond # "ok" THEN PyNone
    ELSE IF is_json /\ content.json THEN content.val
    ELSE content.text

CallApiJsonErrorEmpty(key, cond, content, is_json) ==
    IF ~key THEN PyNone
    ELSE IF cond # "ok" THEN PyNone
    ELSE IF is_json THEN (IF content.json THEN content.val ELSE PyDict(EmptyDict))
    ELSE content.text

\* LLMConnector._call_api (get_expert_response and get_agent_response only
\* choose the model): None on every failure, else the text or its JSON value
CallApi(key, cond, content, is_json) ==
    IF ~key THEN PyNone
    ELSE IF cond # "ok" THEN PyNone
    ELSE IF is_json THEN (IF content.json THEN content.val ELSE PyNone)
    ELSE content.text

----------------------------------------------------------------------------
(* agents/skilltree.py: SkillTreeAgent *)

\* self.skill_nodes, read from the subject schema
SkillNodes == {"Processes", "Memory"}

\* the fallback score of generate
DefaultSkillScore == 1
\* the greatest score update_tree gives
MaxSkillScore == 5
\* update_tree acts from an accuracy of 0.8, in tenths
UpdateAccuracyTenths == 8

DefaultTree == [n \in SkillNodes |-> DefaultSkillScore]

\* SkillTreeAgent.generate, given what get_expert_response(is_json=True)
\* returned: the default profile for None, else the value as it came
Generate(skill_tree_json) ==
    IF IsNone(skill_tree_json) THEN PyDict(DefaultTree) ELSE skill_tree_json

\* quiz_accuracy >= t/10 and quiz_accuracy < 1.0 on the fraction
AtLeastTenths(acc, t) == acc.num * 10 >= t * acc.den
BelowOne(acc) == acc.num < acc.den

\* increment = 1 if quiz_accuracy < 1.0 else 2
Increment(acc) == IF BelowOne(acc) THEN 1 ELSE 2

UpdateTreeNoClamp(current_tree, quiz_accuracy) ==
    IF AtLeastTenths(quiz_accuracy, UpdateAccuracyTenths)
    THEN [skill \in DOMAIN current_tree |->
            IF current_tree[skill] < MaxSkillScore
            THEN current_tree[skill] + Increment(quiz_accuracy)
            ELSE current_tree[skill]]
    ELSE current_tree

UpdateTreePlusOneOnly(current_tree, quiz_accuracy) ==
    IF AtLeastTenths(quiz_accuracy, UpdateAccuracyTenths)
    THEN [skill \in DOMAIN current_tree |->
            IF current_tree[skill] < MaxSkillScore
            THEN Min(MaxSkillScore, current_tree[skill] + 1)
            ELSE current_tree[skill]]
    ELSE current_tree

\* SkillTreeAgent.update_tree: the mapping it returns
UpdateTree(current_tree, quiz_accuracy) ==
    IF AtLeastTenths(quiz_accuracy, UpdateAccuracyTenths)
    THEN [skill \in DOMAIN current_tree |->
            IF current_tree[skill] < MaxSkillScore
            THEN Min(MaxSkillScore, current_tree[skill] + Increment(quiz_accuracy))
            ELSE current_tree[skill]]
    ELSE current_tree

\* update_tree writes into current_tree.copy(): the argument object holds
\* after the call what it held before
UpdateTreeArgument(current_tree, quiz_accuracy) == current_tree

\* the parts of the state a specification does not use
CoreIdle ==
    /\ cpc = "off" /\ max_iterations = 0 /\ it = 0
    /\ current_lp = NoneText /\ best_lp = NoneText /\ best_score = 0
    /\ feedback_f = NoSummary /\ calls = <<>>
    /\ failed_eval = 0 /\ all_failed = TRUE /\ response = PyNone
ApiIdle  == aphase = "off" /\ api_in = PyNone /\ api_out = PyNone /\ gen_out = PyNone
TreeIdle ==
    /\ tphase = "off" /\ tree_in = EmptyDict /\ acc_in = Accuracy(0, 1)
    /\ tree_arg = EmptyDict /\ tree_ret = EmptyDict
SessionCleared ==
    /\ s_has = {} /\ s_level = "" /\ s_questions = 0
    /\ s_final_lesson_plan = NoPlanFound /\ s_final_cidpp_score = 0
    /\ s_current_skill_tree = PyDict(EmptyDict) /\ s_iterations_run = 0
    /\ s_quiz_accuracy = Accuracy(0, 1)
ProcessIdle ==
    /\ ppc = "idle" /\ runs = 0 /\ iteration = 0 /\ lesson_plan = EmptyText
    /\ final_cidpp_score = 0 /\ current_skill_tree = PyNone
    /\ final_lesson_plan = NoPlanFound /\ p_result = "none"
    /\ error_dict = Unassigned
    /\ pcalls = <<>> /\ evals = <<>>
\* no POST to quiz is being served
QuizIdle == qpc = "idle" /\ quiz_i = 0 /\ correct_count = 0
\* no final_plan page was rendered by the last request
NothingRendered == [status |-> "none", tree |-> EmptyDict]
MainIdle ==
    /\ api_key = TRUE /\ SessionCleared /\ ProcessIdle
    /\ rendered = NothingRendered /\ session_logs = 0 /\ QuizIdle
ParseIdle ==
    /\ parse_phase = "off" /\ parse_text = NoneText
    /\ parse_ret = PyNone /\ parse_raised = FALSE
SelectIdle ==
    /\ sel_phase = "off" /\ questions_data = <<>> /\ lesson_topic = ""
    /\ analyst_q_data = PyNone /\ analyst_q_text = ""
GradeIdle ==
    /\ grade_phase = "off" /\ grade_key = TRUE /\ grade_calls = <<>>
    /\ grade_rets = <<>> /\ grade_count = 0 /\ grade_accuracy = Accuracy(0, 1)
UtilIdle == ParseIdle /\ SelectIdle /\ GradeIdle

----------------------------------------------------------------------------
(* One call of SkillTreeAgent.generate, over every exchange *)

GivenScores == (0 - 1)..MaxGivenScore
GivenTrees  == UNION {[S -> GivenScores] : S \in SUBSET SkillNodes}

\* what the expert model may answer when asked for a skill tree: a JSON
\* object over some of the nodes, the JSON null, or text that is not JSON
TreeCompletions ==
    {Json(Lp(0), PyDict(f)) : f \in GivenTrees}
        \cup {Json(Lp(0), PyNone), Prose(Lp(0))}

InitApi ==
    /\ aphase = "in"
    /\ api_in \in [key : BOOLEAN, cond : ApiConditions, content : TreeCompletions]
    /\ api_out = PyNone /\ gen_out = PyNone
    /\ queue = <<>> /\ inserted = <<>> /\ CoreIdle /\ TreeIdle /\ MainIdle
    /\ UtilIdle

\* generate: get_expert_response(prompt, is_json=True), then the fallback
GenerateCall ==
    /\ aphase = "in"
    /\ aphase' = "out"
    /\ api_out' = CallApi(api_in.key, api_in.cond, api_in.content, TRUE)
    /\ gen_out' = Generate(api_out')
    /\ UNCHANGED <<api_in, queueVars, coreVars, treeVars, mainVars, utilVars>>

NextApi == GenerateCall

SpecApi == InitApi /\ [][NextApi]_vars

----------------------------------------------------------------------------
(* One call of SkillTreeAgent.update_tree, over trees and accuracies *)

Accuracies ==
    UNION {{Accuracy(c, t) : c \in 0..t} : t \in 1..MaxAccuracyDen}

InitTree ==
    /\ tphase = "in"
    /\ tree_in \in GivenTrees
    /\ acc_in \in Accuracies
    /\ tree_arg = tree_in
    /\ tree_ret = EmptyDict
    /\ queue = <<>> /\ inserted = <<>> /\ CoreIdle /\ ApiIdle /\ MainIdle
    /\ UtilIdle

UpdateTreeCall ==
    /\ tphase = "in"
    /\ tphase' = "out"
    /\ tree_ret' = UpdateTree(tree_arg, acc_in)
    /\ tree_arg' = UpdateTreeArgument(tree_arg, acc_in)
    /\ UNCHANGED <<tree_in, acc_in, queueVars, coreVars, apiVars, mainVars, utilVars>>

NextTree == UpdateTreeCall

SpecTree == InitTree /\ [][NextTree]_vars

----------------------------------------------------------------------------
(* server.py: call_llm *)

\* What the HTTP exchange of one call_llm can do:
\*   "ok"               a completion is extracted
\*   "RequestException" requests raises (transport, timeout, raise_for_status):
\*                      caught, the LLM_ERROR string is returned
\*   "KeyError"         the envelope has no choices[0].message.content: the
\*                      lookup raises and nothing in call_llm catches it
LlmOutcomes == {"ok", "RequestException", "KeyError"}

CallLlmRaises(outcome) == outcome = "KeyError"

\* the except clause of call_llm ran: the request failure is reported as text
RequestFailed(outcome) == outcome = "RequestException"

\* the value call_llm returns when it returns
CallLlm(outcome, completion) ==
    IF outcome = "ok" THEN completion ELSE LlmError

----------------------------------------------------------------------------
(* server.py: parse_ciddp_output *)

\* An evaluator completion is a sequence of lines plus whether the marker
\* "Advantage:" occurs in it.  A line is [shape, key, pts]:
\*   "scored"       key ":" integer ";" commentary
\*   "no_colon"     line.split(":", 1) does not unpack
\*   "no_semicolon" rest.split(";", 1) does not unpack
\*   "not_int"      int(points_part.strip()) raises
ScoredLine(k, n) == [shape |-> "scored", key |-> k, pts |-> n]
JunkLine(sh)     == [shape |-> sh, key |-> "", pts |-> 0]
Rubric(ls, adv)  == [kind |-> "rubric", lines |-> ls, advantage |-> adv]

\* text.strip().split('\n') of what the evaluator call returned; the
\* LLM_ERROR string is one line with a colon and no integer-semicolon part
TextLines(text) ==
    IF text.kind = "error"
    THEN <<[shape |-> "no_semicolon", key |-> "LLM_ERROR", pts |-> 0]>>
    ELSE text.lines

HasAdvantage(text) == text.kind = "rubric" /\ text.advantage

\* the dict scores after the for loop: a later line overwrites an earlier
\* one with the same key, a line that raises is skipped
ParseScores(lines) ==
    LET good == {k \in 1..Len(lines) : lines[k].shape = "scored"}
        keys == {lines[k].key : k \in good}
        last(key) == CHOOSE k \in good :
                        /\ lines[k].key = key
                        /\ \A j \in good : lines[j].key = key => j <= k
    IN  [key \in keys |-> lines[last(key)].pts]

RECURSIVE SumOver(_, _)
SumOver(f, S) ==
    IF S = {} THEN 0
    ELSE LET x == CHOOSE y \in S : TRUE IN f[x] + SumOver(f, S \ {x})

\* Python round() of num/den (den > 0): to nearest, ties to the even integer
RoundHalfEven(num, den) ==
    LET q == num \div den
        r == num - q * den
    IN  IF 2 * r < den THEN q
        ELSE IF 2 * r > den THEN q + 1
        ELSE IF q % 2 = 0 THEN q ELSE q + 1

\* the body of the try raises for a line: a split that does not unpack or
\* an int() that does not convert
LineRaises(line) == line.shape # "scored"

\* "except: continue": the bare except swallows whatever the line raised
Caught(line) == TRUE

Abs(n) == IF n < 0 THEN 0 - n ELSE n

\* int / int raises OverflowError when the quotient is beyond the floats
DivisionOverflows(num, den) == Abs(num) > FloatMax * den

\* line 109, outside the try: sum(scores.values()) / len(scores) raises
AverageRaises(text) ==
    LET scores == ParseScores(TextLines(text))
        n == Cardinality(DOMAIN scores)
    IN  n > 0 /\ DivisionOverflows(SumOver(scores, DOMAIN scores), n)

\* an exception leaves parse_ciddp_output: one of a line that the except
\* clause does not catch, or the one of the division
ParseRaises(text) ==
    \/ \E k \in DOMAIN TextLines(text) :
          LineRaises(TextLines(text)[k]) /\ ~Caught(TextLines(text)[k])
    \/ AverageRaises(text)

\* an integer so long that its mean with the other points of a rubric is
\* beyond the floats (for the code: an integer of 400 digits)
HugePoints == 6 * FloatMax

\* parse_ciddp_output: (round(avg_score), feedback_f, scores)
ParseCiddpOutput(text) ==
    LET scores == ParseScores(TextLines(text))
        n == Cardinality(DOMAIN scores)
    IN  [score    |-> IF n > 0 THEN RoundHalfEven(SumOver(scores, DOMAIN scores), n)
                      ELSE 0,
         feedback |-> IF HasAdvantage(text) THEN "Advantage:" ELSE NoSummary,
         scores   |-> scores]

----------------------------------------------------------------------------
(* server.py: run_optimization_core *)

\* averages the evaluator completions of the model parse to
ScoreValues == {-2, 0, 3, 5, 9}

\* the evaluator completions explored: one scored rubric line and a summary;
\* the line carries one of the averages or the integer beyond the floats
EvalCompletions ==
    {Rubric(<<ScoredLine("C", s)>>, TRUE) : s \in ScoreValues \cup {HugePoints}}

\* EvaluatorAgent.evaluate: call_llm, then parse_ciddp_output
Evaluate(outcome, completion) == ParseCiddpOutput(CallLlm(outcome, completion))

\* parse_ciddp_output raises inside EvaluatorAgent.evaluate
EvaluateRaises(outcome, completion) == ParseRaises(CallLlm(outcome, completion))

\* "for i in range(max_iterations)": a body runs while i < max_iterations
LoopContinues(i, n) == i < n

\* "if score > best_score": the test that replaces the best candidate
BestUpdate(score, best) == score > best

InitCore ==
    /\ ApiIdle /\ TreeIdle /\ MainIdle /\ UtilIdle
    /\ queue = <<>> /\ inserted = <<>>
    /\ cpc = "start"
    /\ max_iterations \in 0..MaxIter
    /\ it = 0
    /\ current_lp = NoneText /\ best_lp = NoneText /\ best_score = 0
    /\ feedback_f = NoSummary
    /\ calls = <<>>
    /\ failed_eval = 0 /\ all_failed = TRUE /\ response = PyNone

\* an exception leaves run_optimization_core: nothing is returned
CoreRaise(call) ==
    /\ cpc' = "raised"
    /\ calls' = Append(calls, call)
    /\ UNCHANGED <<queueVars, max_iterations, it, current_lp, best_lp,
                   best_score, feedback_f, failed_eval, all_failed, response>>

\* parse_ciddp_output raises on the completion call_llm returned from the
\* evaluator's call: the call itself is one more that call_llm answered
EvaluateRaise(o) ==
    /\ cpc' = "raised"
    /\ calls' = Append(calls, "evaluate")
    /\ all_failed' = (all_failed /\ RequestFailed(o))
    /\ UNCHANGED <<queueVars, max_iterations, it, current_lp, best_lp,
                   best_score, feedback_f, failed_eval, response>>

\* lines 203-212: the agents are built (empty queue), Lp0 is generated,
\* best_lp = current_lp, best_score = 0
GenerateInitialLp ==
    /\ cpc = "start"
    /\ UNCHANGED <<apiVars, treeVars, mainVars, utilVars>>
    /\ \E o \in LlmOutcomes :
         IF CallLlmRaises(o) THEN CoreRaise("generate")
         ELSE /\ current_lp' = CallLlm(o, Lp(0))
              /\ best_lp' = current_lp'
              /\ best_score' = 0
              /\ queue' = <<>>
              /\ calls' = Append(calls, "generate")
              /\ cpc' = IF LoopContinues(0, max_iterations) THEN "evaluate" ELSE "returned"
              /\ all_failed' = (all_failed /\ RequestFailed(o))
              /\ UNCHANGED <<inserted, max_iterations, it, feedback_f,
                             failed_eval, response>>

\* lines 216-220: evaluate, _update_queue, best-candidate update
EvaluateStep ==
    /\ cpc = "evaluate"
    /\ UNCHANGED <<apiVars, treeVars, mainVars, utilVars>>
    /\ \E o \in LlmOutcomes, c \in EvalCompletions :
         IF CallLlmRaises(o) THEN CoreRaise("evaluate")
         ELSE IF EvaluateRaises(o, c) THEN EvaluateRaise(o)
         ELSE LET r == Evaluate(o, c) IN
              /\ queue' = UpdateQueue(queue, current_lp, r.score)
              /\ inserted' = Append(inserted, [lp |-> current_lp, score |-> r.score])
              /\ feedback_f' = r.feedback
              /\ IF BestUpdate(r.score, best_score)
                 THEN best_score' = r.score /\ best_lp' = current_lp
                 ELSE UNCHANGED <<best_score, best_lp>>
              /\ calls' = Append(calls, "evaluate")
              /\ cpc' = "analyze"
              /\ failed_eval' = IF failed_eval = 0 /\ RequestFailed(o)
                                THEN it + 1 ELSE failed_eval
              /\ all_failed' = (all_failed /\ RequestFailed(o))
              /\ UNCHANGED <<max_iterations, it, current_lp, response>>

\* lines 223-234: the analyst call; its text only enters the optimizer prompt
AnalyzeStep ==
    /\ cpc = "analyze"
    /\ UNCHANGED <<apiVars, treeVars, mainVars, utilVars>>
    /\ \E o \in LlmOutcomes :
         IF CallLlmRaises(o) THEN CoreRaise("analyze")
         ELSE /\ calls' = Append(calls, "analyze")
              /\ cpc' = "optimize"
              /\ all_failed' = (all_failed /\ RequestFailed(o))
              /\ UNCHANGED <<queueVars, max_iterations, it, current_lp,
                             best_lp, best_score, feedback_f, failed_eval,
                             response>>

\* line 237 and the loop header: the optimizer's text is the next candidate
OptimizeStep ==
    /\ cpc = "optimize"
    /\ UNCHANGED <<apiVars, treeVars, mainVars, utilVars>>
    /\ \E o \in LlmOutcomes :
         IF CallLlmRaises(o) THEN CoreRaise("optimize")
         ELSE /\ current_lp' = CallLlm(o, Lp(it + 1))
              /\ it' = it + 1
              /\ calls' = Append(calls, "optimize")
              /\ cpc' = IF LoopContinues(it + 1, max_iterations)
                      THEN "evaluate" ELSE "returned"
              /\ all_failed' = (all_failed /\ RequestFailed(o))
              /\ UNCHANGED <<queueVars, max_iterations, best_lp, best_score,
                             feedback_f, failed_eval, response>>

\* optimize_lesson_route, lines 273-274: no question data on the server
ErrorResponse == [status |-> "error", code |-> 500]

\* lines 299-305: the JSON body answered with the tuple the core returned
SuccessResponse(lp, score) ==
    [status |-> "success", code |-> 200, score |-> score, best_lesson_plan |-> lp]

\* the route refuses the request when os_questions is empty
OptimizeLessonNoQuestions ==
    /\ cpc = "start"
    /\ cpc' = "responded"
    /\ response' = ErrorResponse
    /\ UNCHANGED <<queueVars, max_iterations, it, current_lp, best_lp,
                   best_score, feedback_f, calls, failed_eval, all_failed>>
    /\ UNCHANGED <<apiVars, treeVars, mainVars, utilVars>>

\* lines 292-309: the tuple returned becomes a "success" body; an exception
\* that left the core becomes an "error" body with code 500
OptimizeLessonRespond ==
    /\ cpc \in {"returned", "raised"}
    /\ cpc' = "responded"
    /\ response' = IF cpc = "returned" THEN SuccessResponse(best_lp, best_score)
                   ELSE ErrorResponse
    /\ UNCHANGED <<queueVars, max_iterations, it, current_lp, best_lp,
                   best_score, feedback_f, calls, failed_eval, all_failed>>
    /\ UNCHANGED <<apiVars, treeVars, mainVars, utilVars>>

NextCore ==
    \/ GenerateInitialLp
    \/ EvaluateStep
    \/ AnalyzeStep
    \/ OptimizeStep
    \/ OptimizeLessonNoQuestions
    \/ OptimizeLessonRespond

SpecCore == InitCore /\ [][NextCore]_vars

----------------------------------------------------------------------------
(* The retention queue on its own: any sequence of _update_queue calls *)

QueueTexts  == {Lp(1), Lp(2)}
QueueScores == {-2, 0, 9}

InitQueue ==
    /\ queue = <<>> /\ inserted = <<>>
    /\ CoreIdle /\ ApiIdle /\ TreeIdle /\ MainIdle /\ UtilIdle

UpdateQueueCall ==
    /\ Len(inserted) < MaxInserts
    /\ \E t \in QueueTexts, sc \in QueueScores :
         /\ queue' = UpdateQueue(queue, t, sc)
         /\ inserted' = Append(inserted, [lp |-> t, score |-> sc])
    /\ UNCHANGED <<coreVars, apiVars, treeVars, mainVars, utilVars>>

NextQueue == UpdateQueueCall

SpecQueue == InitQueue /\ [][NextQueue]_vars

----------------------------------------------------------------------------
(* One call of parse_ciddp_output, over rubric texts *)

\* the keys of the five rubric lines, in the order of CIDDP_STANDARD
RubricKeys == <<"C", "I", "D", "P", "Pe">>

\* the integers a rubric line carries in the texts explored: small ones
\* and, of either sign, one beyond the floats
Points == ((0 - 1)..MaxPoints) \cup {HugePoints, 0 - HugePoints}

\* texts holding exactly the five rubric lines
FullRubrics ==
    {Rubric([k \in 1..5 |-> ScoredLine(RubricKeys[k], f[k])], adv) :
        f \in [1..5 -> Points], adv \in BOOLEAN}

\* the lines of the shorter texts: two keys, every malformed shape
ParseLines ==
    {ScoredLine(k, n) : k \in {"C", "I"}, n \in Points}
        \cup {JunkLine(sh) : sh \in {"no_colon", "no_semicolon", "not_int"}}

ShortTexts ==
    {Rubric(ls, adv) :
        ls \in UNION {[1..n -> ParseLines] : n \in 0..MaxLines}, adv \in BOOLEAN}

ParseTexts == FullRubrics \cup ShortTexts \cup {LlmError}

InitParse ==
    /\ parse_phase = "in"
    /\ parse_text \in ParseTexts
    /\ parse_ret = PyNone /\ parse_raised = FALSE
    /\ SelectIdle /\ GradeIdle
    /\ queue = <<>> /\ inserted = <<>>
    /\ CoreIdle /\ ApiIdle /\ TreeIdle /\ MainIdle

ParseCall ==
    /\ parse_phase = "in"
    /\ parse_phase' = "out"
    /\ parse_raised' = ParseRaises(parse_text)
    /\ parse_ret' = IF parse_raised' THEN PyNone ELSE ParseCiddpOutput(parse_text)
    /\ UNCHANGED <<parse_text, selectVars, gradeVars>>
    /\ UNCHANGED <<queueVars, coreVars, apiVars, treeVars, mainVars>>

NextParse == ParseCall

SpecParse == InitParse /\ [][NextParse]_vars

----------------------------------------------------------------------------
(* server.py: select_analyst_question and its use in the loop *)

\* a record of the question bank
QuestionRecord(t, q) == [topic |-> t, question |-> q]

BankTopics      == {"Sync", "Memory"}
RequestedTopics == BankTopics \cup {"Paging"}
BankRecords ==
    {QuestionRecord(t, q) : t \in BankTopics, q \in {"q1", "q2"}}
Banks == UNION {[1..n -> BankRecords] : n \in 0..MaxBank}

\* random.choice(seq): any element
RandomChoice(seq) == Range(seq)

SelectAnyQuestion(questions, topic) ==
    IF questions # <<>> THEN RandomChoice(questions) ELSE {PyNone}

\* select_analyst_question: the values a call may return
SelectAnalystQuestion(questions, topic) ==
    LET HasTopic(q) == q.topic = topic
        topic_questions == SelectSeq(questions, HasTopic)
    IN  IF topic_questions # <<>> THEN RandomChoice(topic_questions)
        ELSE IF questions # <<>> THEN RandomChoice(questions)
        ELSE {PyNone}

PlaceholderQuestion == "Placeholder question for OS concept."

\* line 224: analyst_q_data['question'] if analyst_q_data else the placeholder
AnalystQuestionText(q_data) ==
    IF q_data = PyNone THEN PlaceholderQuestion ELSE q_data.question

InitSelect ==
    /\ sel_phase = "in"
    /\ questions_data \in Banks
    /\ lesson_topic \in RequestedTopics
    /\ analyst_q_data = PyNone /\ analyst_q_text = ""
    /\ ParseIdle /\ GradeIdle
    /\ queue = <<>> /\ inserted = <<>>
    /\ CoreIdle /\ ApiIdle /\ TreeIdle /\ MainIdle

\* lines 223-224 of run_optimization_core
SelectCall ==
    /\ sel_phase = "in"
    /\ sel_phase' = "out"
    /\ \E d \in SelectAnalystQuestion(questions_data, lesson_topic) :
         /\ analyst_q_data' = d
         /\ analyst_q_text' = AnalystQuestionText(d)
    /\ UNCHANGED <<questions_data, lesson_topic, parseVars, gradeVars>>
    /\ UNCHANGED <<queueVars, coreVars, apiVars, treeVars, mainVars>>

NextSelect == SelectCall

SpecSelect == InitSelect /\ [][NextSelect]_vars

----------------------------------------------------------------------------
(* main.py: configuration and helpers *)

\* MAX_ITERATIONS = 5
MAX_ITERATIONS == 5
\* CIDDP_SCORE_THRESHOLD = 8.0, in tenths
CIDDP_SCORE_THRESHOLD == 80
\* QUIZ_ACCURACY_THRESHOLD = 0.8, in tenths
QUIZ_ACCURACY_THRESHOLD == 8
SKILL_LEVELS == {"Beginner", "Intermediate", "Advanced"}

\* the levels posted to index that the model explores: one valid, one not
LevelInputs == {"Beginner", "Expert"}

\* the text of a grader completion, character by character
GraderText(cs) == [kind |-> "chars", id |-> 0, chars |-> cs]
CORRECT   == <<"C", "O", "R", "R", "E", "C", "T">>
INCORRECT == <<"I", "N">> \o CORRECT
LowerCorrect == <<"c", "o", "r", "r", "e", "c", "t">>
Unsure    == <<"U", "N", "S", "U", "R", "E">>

\* str.upper() on the letters that occur
UpperChar(c) ==
    CASE c = "c" -> "C" [] c = "o" -> "O" [] c = "r" -> "R"
      [] c = "e" -> "E" [] c = "t" -> "T" [] c = "i" -> "I"
      [] c = "n" -> "N" [] OTHER -> c
Upper(cs) == [k \in DOMAIN cs |-> UpperChar(cs[k])]

\* sub in cs
Contains(cs, sub) ==
    \E k \in 0..(Len(cs) - Len(sub)) : SubSeq(cs, k + 1, k + Len(sub)) = sub

\* grade_answer, given what get_agent_response returned
GradeAnswer(grade_result) ==
    /\ ~IsNone(grade_result)
    /\ grade_result.chars # <<>>
    /\ Contains(Upper(grade_result.chars), CORRECT)

\* feedback.get("Average", 0.0), in tenths
AverageOf(feedback) ==
    IF "Average" \in DOMAIN feedback.val THEN feedback.val["Average"] ELSE 0

\* "not feedback", "not error_dict": None or an empty dict
Falsy(v) == IsNone(v) \/ (v.kind = "dict" /\ DOMAIN v.val = {})

\* the test before Step 5: "iteration < MAX_ITERATIONS or score < threshold"
OptimizeAfterEvaluation(iter, score) ==
    iter < MAX_ITERATIONS \/ score < CIDDP_SCORE_THRESHOLD

\* "if final_cidpp_score >= CIDDP_SCORE_THRESHOLD: break"
ThresholdMet(score) == score >= CIDDP_SCORE_THRESHOLD

----------------------------------------------------------------------------
(* main.py: the routes of one browser session *)

\* largest number of quiz questions the expert model returns
MaxQuestions == 2

\* the exchanges explored per call: success and one failure (_call_api
\* returns None alike on every failure, see SpecApi)
SessionConditions == {"ok", "timeout"}

SessionTreeCompletions ==
    { Json(Lp(0), PyDict([n \in SkillNodes |-> IF n = "Memory" THEN 5 ELSE 4])),
      Json(Lp(0), PyDict([n \in SkillNodes |-> IF n = "Memory" THEN 0 ELSE 6])),
      Json(Lp(0), PyDict([n \in {"Processes"} |-> 3])) }

\* Average values, in tenths, the evaluator completions carry
AverageValues == {60, 80}

FeedbackCompletions ==
    {Json(Lp(0), PyDict([k \in {"Average"} |-> a])) : a \in AverageValues}
        \cup { Json(Lp(0), PyDict(EmptyDict)) }

\* a concept with its list of misconceptions, the empty object, prose
AnalystCompletions ==
    { Json(Lp(0), PyDict([k \in {"Paging"} |-> <<"m1", "m2">>])),
      Json(Lp(0), PyDict(EmptyDict)),
      Prose(Lp(0)) }

PyList(n) == [kind |-> "list", len |-> n]

\* the session is explored with quizzes of MaxQuestions questions; the
\* grading loop over shorter quizzes is explored in SpecGrade
QuizCompletions ==
    {Json(Lp(0), PyList(MaxQuestions))}

GraderCompletions ==
    {Prose(GraderText(cs)) : cs \in {CORRECT, INCORRECT, LowerCorrect, Unsure}}

\* one grading call: an exchange and the grader's completion
GradeCases ==
    ({"ok"} \X GraderCompletions) \cup ({"timeout"} \X {Prose(GraderText(<<>>))})

Init ==
    /\ api_key \in BOOLEAN
    /\ SessionCleared /\ ProcessIdle
    /\ rendered = NothingRendered /\ session_logs = 0 /\ QuizIdle
    /\ queue = <<>> /\ inserted = <<>> /\ CoreIdle /\ ApiIdle /\ TreeIdle
    /\ UtilIdle

notMain == <<queueVars, coreVars, apiVars, treeVars, utilVars, api_key>>

\* another request is served: the locals of the last process run, kept in
\* the state as they were when the handler ended, are gone
ForgetRun ==
    /\ iteration' = 0 /\ lesson_plan' = EmptyText /\ final_cidpp_score' = 0
    /\ current_skill_tree' = PyNone /\ final_lesson_plan' = NoPlanFound
    /\ p_result' = "none" /\ pcalls' = <<>> /\ evals' = <<>>
    /\ error_dict' = Unassigned
    /\ UNCHANGED ppc

\* index, POST: a valid level clears the session and redirects to process
IndexPost ==
    /\ ppc = "idle" /\ qpc = "idle"
    /\ \E level \in LevelInputs :
         IF level \in SKILL_LEVELS
         THEN /\ s_has' = {"level", "status_log"}
              /\ s_level' = level
              /\ s_questions' = 0
              /\ s_final_lesson_plan' = NoPlanFound
              /\ s_final_cidpp_score' = 0
              /\ s_current_skill_tree' = PyDict(EmptyDict)
              /\ s_iterations_run' = 0
              /\ s_quiz_accuracy' = Accuracy(0, 1)
              /\ runs' = 0
              /\ session_logs' = 0
         ELSE UNCHANGED <<sessVars, runs, session_logs>>
    /\ ForgetRun
    /\ rendered' = NothingRendered
    /\ UNCHANGED <<quizVars, notMain>>

\* the except clause of process: the handler renders the log and ends; its
\* page is then the last one served
Fatal(call) ==
    /\ ppc' = "idle"
    /\ rendered' = NothingRendered
    /\ p_result' = "fatal"
    /\ pcalls' = Append(pcalls, call)

\* process without a level in the session: redirect to index
ProcessNoLevel ==
    /\ ppc = "idle" /\ qpc = "idle"
    /\ s_level = ""
    /\ p_result' = "redirect_index"
    /\ rendered' = NothingRendered
    /\ UNCHANGED <<ppc, runs, iteration, lesson_plan, final_cidpp_score,
                   current_skill_tree, final_lesson_plan, error_dict, pcalls,
                   evals>>
    /\ UNCHANGED <<sessVars, session_logs, quizVars, notMain>>

\* process, lines 101-122: the configuration is loaded, the loop state is
\* reset and the skill-tree request is sent; the handler then waits for the
\* answer.  The route is served whenever the session holds a level, so also
\* again after a run has ended.
ProcessStart ==
    /\ ppc = "idle" /\ qpc = "idle"
    /\ s_level # ""
    /\ runs < MaxRuns
    /\ runs' = runs + 1
    /\ iteration' = 0
    /\ lesson_plan' = EmptyText
    /\ final_cidpp_score' = 0
    /\ final_lesson_plan' = NoPlanFound
    /\ error_dict' = Unassigned
    /\ evals' = <<>>
    /\ current_skill_tree' = PyNone
    /\ pcalls' = <<>>
    /\ \E config_ok \in BOOLEAN :
         IF ~config_ok
         THEN ppc' = "idle" /\ p_result' = "config_error"
         ELSE ppc' = "skilltree" /\ p_result' = "none"
    /\ rendered' = NothingRendered
    /\ UNCHANGED <<sessVars, session_logs, quizVars, notMain>>

\* lines 122-127: the skill-tree call returns and the tree is assigned; the
\* initial-plan request is sent
ProcessSkillTree ==
    /\ ppc = "skilltree"
    /\ \E cond \in SessionConditions, c \in SessionTreeCompletions :
         current_skill_tree' = Generate(CallApi(api_key, cond, c, TRUE))
    /\ pcalls' = Append(pcalls, "skilltree")
    /\ ppc' = "initial"
    /\ UNCHANGED <<runs, iteration, lesson_plan, final_cidpp_score,
                   final_lesson_plan, error_dict, p_result, evals>>
    /\ UNCHANGED <<sessVars, rendered, session_logs, quizVars, notMain>>

\* lines 131-137, the while test: when it holds the body is entered,
\* "iteration += 1" runs and the evaluator's request is sent; when it does
\* not the loop is left for the analyst
WhileTest ==
    IF iteration < MAX_ITERATIONS
    THEN ppc' = "evaluate" /\ iteration' = iteration + 1
    ELSE ppc' = "analyze" /\ UNCHANGED iteration

\* lines 126-137: the first draft; len(None) raises when the call failed
ProcessInitialPlan ==
    /\ ppc = "initial"
    /\ \E cond \in SessionConditions :
         LET plan == CallApi(api_key, cond, Prose(Lp(0)), FALSE) IN
         /\ lesson_plan' = plan
         /\ IF IsNone(plan)
            THEN Fatal("initial") /\ UNCHANGED iteration
            ELSE /\ pcalls' = Append(pcalls, "initial")
                 /\ WhileTest
                 /\ UNCHANGED <<p_result, rendered>>
    /\ UNCHANGED <<runs, final_cidpp_score, current_skill_tree,
                   final_lesson_plan, error_dict, evals>>
    /\ UNCHANGED <<sessVars, session_logs, quizVars, notMain>>

\* lines 137-150 (and 156-157 when Step 5 is skipped): the evaluation of
\* this iteration returns
ProcessEvaluate ==
    /\ ppc = "evaluate"
    /\ pcalls' = Append(pcalls, "evaluate")
    /\ \E cond \in SessionConditions, c \in FeedbackCompletions :
         LET feedback == CallApi(api_key, cond, c, TRUE) IN
         IF Falsy(feedback)
         THEN /\ ppc' = "analyze"
              /\ UNCHANGED <<iteration, final_cidpp_score, evals>>
         ELSE LET score == AverageOf(feedback) IN
              /\ final_cidpp_score' = score
              /\ evals' = Append(evals, [plan |-> lesson_plan, score |-> score])
              /\ IF OptimizeAfterEvaluation(iteration, score)
                 THEN ppc' = "optimize" /\ UNCHANGED iteration
                 ELSE IF ThresholdMet(score)
                      THEN ppc' = "analyze" /\ UNCHANGED iteration
                      ELSE WhileTest
    /\ UNCHANGED <<runs, lesson_plan, current_skill_tree, final_lesson_plan,
                   error_dict, p_result>>
    /\ UNCHANGED <<sessVars, rendered, session_logs, quizVars, notMain>>

\* lines 151-157: Step 5 returns, then the break on the threshold or the
\* while test again
ProcessOptimize ==
    /\ ppc = "optimize"
    /\ pcalls' = Append(pcalls, "optimize")
    /\ \E cond \in SessionConditions :
         lesson_plan' = CallApi(api_key, cond, Prose(Lp(iteration)), FALSE)
    /\ IF ThresholdMet(final_cidpp_score)
       THEN ppc' = "analyze" /\ UNCHANGED iteration
       ELSE WhileTest
    /\ UNCHANGED <<runs, final_cidpp_score, current_skill_tree,
                   final_lesson_plan, error_dict, p_result, evals>>
    /\ UNCHANGED <<sessVars, rendered, session_logs, quizVars, notMain>>

\* lines 160-164: the analyst, the tips appended to the plan; None + str and
\* len(None) raise
ProcessAnalyze ==
    /\ ppc = "analyze"
    /\ \E cond \in SessionConditions, c \in AnalystCompletions :
         /\ error_dict' = CallApi(api_key, cond, c, TRUE)
         /\ final_lesson_plan' =
               IF IsNone(lesson_plan) THEN final_lesson_plan
               ELSE [plan |-> lesson_plan, tips |-> ~Falsy(error_dict')]
         /\ IF IsNone(lesson_plan) \/ IsNone(error_dict')
            THEN Fatal("analyze")
            ELSE /\ pcalls' = Append(pcalls, "analyze")
                 /\ ppc' = "quizgen"
                 /\ UNCHANGED <<p_result, rendered>>
    /\ UNCHANGED <<runs, iteration, lesson_plan, final_cidpp_score,
                   current_skill_tree, evals>>
    /\ UNCHANGED <<sessVars, session_logs, quizVars, notMain>>

\* lines 167-175: the quiz questions, the session is filled, redirect to
\* quiz: the redirect is then the last answer served
ProcessQuizGen ==
    /\ ppc = "quizgen"
    /\ \E cond \in SessionConditions, c \in QuizCompletions :
         LET questions == CallApi(api_key, cond, c, TRUE) IN
         s_questions' = IF IsNone(questions) THEN 0 ELSE questions.len
    /\ s_has' = s_has \cup {"questions", "final_lesson_plan", "final_cidpp_score",
                            "current_skill_tree", "iterations_run"}
    /\ s_final_lesson_plan' = final_lesson_plan
    /\ s_final_cidpp_score' = final_cidpp_score
    /\ s_current_skill_tree' = current_skill_tree
    /\ s_iterations_run' = iteration
    /\ pcalls' = Append(pcalls, "quizgen")
    /\ ppc' = "idle"
    /\ p_result' = "redirect_quiz"
    /\ UNCHANGED <<s_level, s_quiz_accuracy>>
    /\ UNCHANGED <<runs, iteration, lesson_plan, final_cidpp_score,
                   current_skill_tree, final_lesson_plan, error_dict, evals>>
    /\ rendered' = NothingRendered
    /\ UNCHANGED <<session_logs, quizVars, notMain>>

\* quiz, POST, lines 184-195: the questions are read from the session and
\* the loop starts; the handler then waits for the grader's first answer.
\* Requests that write the session are served one at a time; final_plan,
\* which only reads it, is also served while the grading calls are awaited.
QuizPost ==
    /\ ppc = "idle" /\ qpc = "idle"
    /\ s_questions > 0
    /\ qpc' = "grading" /\ quiz_i' = 0 /\ correct_count' = 0
    /\ ForgetRun
    /\ rendered' = NothingRendered
    /\ UNCHANGED <<sessVars, runs, session_logs, notMain>>

\* lines 195-203: the grading call of question i returns; after the last
\* one the accuracy goes into the session and the handler answers with the
\* redirect, which is then the last request served
QuizGradeOne ==
    /\ qpc = "grading"
    /\ \E g \in GradeCases :
         LET is_correct == GradeAnswer(CallApi(api_key, g[1], g[2], FALSE))
             count == IF is_correct THEN correct_count + 1 ELSE correct_count
         IN  IF quiz_i + 1 < s_questions
             THEN /\ quiz_i' = quiz_i + 1
                  /\ correct_count' = count
                  /\ UNCHANGED <<qpc, sessVars, rendered>>
             ELSE /\ s_quiz_accuracy' = Accuracy(count, s_questions)
                  /\ s_has' = s_has \cup {"quiz_accuracy"}
                  /\ qpc' = "idle" /\ quiz_i' = 0 /\ correct_count' = 0
                  /\ rendered' = NothingRendered
                  /\ UNCHANGED <<s_level, s_questions, s_final_lesson_plan,
                                 s_final_cidpp_score, s_current_skill_tree,
                                 s_iterations_run>>
    /\ UNCHANGED <<procVars, session_logs, notMain>>

\* final_plan: the post-quiz update and the status; the session is read
\* with its defaults; save_session_log writes one record per request.  The
\* route has no guard and is also served while process or quiz waits for
\* a call; the waiting handler's locals are then left as they are.
FinalPlan ==
    /\ rendered' =
          [status |-> IF /\ s_final_cidpp_score >= CIDDP_SCORE_THRESHOLD
                         /\ AtLeastTenths(s_quiz_accuracy, QUIZ_ACCURACY_THRESHOLD)
                      THEN "Module Completed"
                      ELSE "Incomplete/Needs Practice",
           tree   |-> UpdateTree(s_current_skill_tree.val, s_quiz_accuracy)]
    /\ session_logs' = Min(session_logs + 1, MaxLogs)
    /\ IF ppc = "idle" THEN ForgetRun ELSE UNCHANGED procVars
    /\ UNCHANGED <<sessVars, runs, quizVars, notMain>>

Next ==
    \/ IndexPost
    \/ ProcessNoLevel
    \/ ProcessStart
    \/ ProcessSkillTree
    \/ ProcessInitialPlan
    \/ ProcessEvaluate
    \/ ProcessOptimize
    \/ ProcessAnalyze
    \/ ProcessQuizGen
    \/ QuizPost
    \/ QuizGradeOne
    \/ FinalPlan

Spec == Init /\ [][Next]_vars

----------------------------------------------------------------------------
(* main.py: the grading loop of quiz on its own, over grader outputs *)

LowerIncorrect == <<"i", "n">> \o LowerCorrect

\* what the grader model may write: the two verdicts in either case, another
\* word, nothing
GraderOutputs == {CORRECT, INCORRECT, LowerCorrect, LowerIncorrect, Unsure, <<>>}

\* one grading call: the exchange and the grader's text
GradeCalls == [cond : SessionConditions, chars : GraderOutputs]

InitGrade ==
    /\ grade_phase = "in"
    /\ grade_key \in BOOLEAN
    /\ grade_calls \in UNION {[1..n -> GradeCalls] : n \in 1..MaxQuestions}
    /\ grade_rets = <<>> /\ grade_count = 0 /\ grade_accuracy = Accuracy(0, 1)
    /\ ParseIdle /\ SelectIdle
    /\ queue = <<>> /\ inserted = <<>>
    /\ CoreIdle /\ ApiIdle /\ TreeIdle /\ MainIdle

\* quiz, lines 193-199: the grading call of the next question returns and
\* is counted; after the last one the accuracy is computed
GradeOne ==
    /\ grade_phase = "in"
    /\ LET k == Len(grade_rets) + 1
           is_correct ==
               GradeAnswer(CallApi(grade_key, grade_calls[k].cond,
                                   Prose(GraderText(grade_calls[k].chars)), FALSE))
           count == IF is_correct THEN grade_count + 1 ELSE grade_count
       IN  /\ grade_rets' = Append(grade_rets, is_correct)
           /\ grade_count' = count
           /\ IF k = Len(grade_calls)
              THEN /\ grade_phase' = "out"
                   /\ grade_accuracy' = Accuracy(count, Len(grade_calls))
              ELSE UNCHANGED <<grade_phase, grade_accuracy>>
    /\ UNCHANGED <<grade_key, grade_calls, parseVars, selectVars>>
    /\ UNCHANGED <<queueVars, coreVars, apiVars, treeVars, mainVars>>

NextGrade == GradeOne

SpecGrade == InitGrade /\ [][NextGrade]_vars

----------------------------------------------------------------------------
(* Claims about the retention queue and run_optimization_core *)

Count(s, e) == Cardinality({k \in DOMAIN s : s[k] = e})

ScoresOf(s) == {s[k].score : k \in DOMAIN s}

MaxOf(S) == CHOOSE m \in S : \A x \in S : x <= m

\* C1: after N calls of _update_queue from the empty queue, the queue holds
\* exactly min(N, queue_capacity) entries (so never more than queue_capacity),
\* is sorted by score descending, holds inserted entries only, every entry
\* that was dropped scores no more than any entry kept, and the entry at
\* index 0 carries the greatest score ever inserted.
C1_QueueKeepsBest ==
    /\ Len(queue) = Min(Len(inserted), queue_capacity)
    /\ Len(queue) <= queue_capacity
    /\ \A i, j \in DOMAIN queue : i < j => queue[i].score >= queue[j].score
    /\ \A e \in Range(queue) : Count(queue, e) <= Count(inserted, e)
    /\ \A e \in Range(inserted) :
          Count(queue, e) < Count(inserted, e)
              => \A k \in DOMAIN queue : queue[k].score >= e.score
    /\ inserted # <<>> => queue[1].score = MaxOf(ScoresOf(inserted))

\* more calls than the capacity, an entry was dropped, scores differ
C1_Witness ==
    /\ Len(inserted) > queue_capacity
    /\ Len(queue) = queue_capacity
    /\ queue[1].score > queue[queue_capacity].score
    /\ \E e \in Range(inserted) : Count(queue, e) < Count(inserted, e)
    /\ inserted[Len(inserted)].score = 9
    /\ inserted[1].score = -2

\* C2: when run_optimization_core returns after at least one evaluation,
\* best_score is the greatest score evaluated during the run and best_lp is
\* a candidate that was evaluated with that score.
C2_ReturnsBestEvaluated ==
    (cpc = "returned" /\ inserted # <<>>) =>
        /\ best_score = MaxOf(ScoresOf(inserted))
        /\ \E k \in DOMAIN inserted :
              inserted[k] = [lp |-> best_lp, score |-> best_score]

FirstMaxIndex(s) ==
    CHOOSE k \in DOMAIN s :
        /\ s[k].score = MaxOf(ScoresOf(s))
        /\ \A j \in DOMAIN s : s[j].score = MaxOf(ScoresOf(s)) => k <= j

\* C3: among the iterations tied for the greatest score the candidate of
\* the first one is what run_optimization_core returns (the pointer moves
\* only on a strictly greater score); with scores 5, 9, 3, 9 that is the
\* candidate evaluated in iteration 2.
C3_FirstSeenMaxReturned ==
    (cpc = "returned" /\ inserted # <<>>) =>
        best_lp = inserted[FirstMaxIndex(inserted)].lp

\* the call sequence of a complete run with n iterations
RECURSIVE ExpectedCalls(_)
ExpectedCalls(n) ==
    IF n = 0 THEN <<"generate">>
    ELSE ExpectedCalls(n - 1) \o <<"evaluate", "analyze", "optimize">>

IsPrefix(s, t) == Len(s) <= Len(t) /\ SubSeq(t, 1, Len(s)) = s

\* C4: a run with max_iterations = N issues one initial generation and then
\* N times evaluate, analyze, optimize, in that order: at every point the
\* calls issued are a prefix of that sequence (no retry, no extra call), no
\* run ends before it has issued all of it (no early exit, by an exception
\* either), a run that returns has issued all of it whatever the scores
\* were, and a run still under way has calls of it left to issue.
C4_ExactCycles ==
    /\ IsPrefix(calls, ExpectedCalls(max_iterations))
    /\ cpc # "raised"
    /\ cpc = "returned" =>
          /\ calls = ExpectedCalls(max_iterations)
          /\ it = max_iterations
          /\ Len(inserted) = max_iterations
    /\ cpc \in {"start", "evaluate", "analyze", "optimize"} =>
          Len(calls) < Len(ExpectedCalls(max_iterations))

----------------------------------------------------------------------------
(* Claims about SkillTreeAgent *)

InRange(tree) == \A n \in DOMAIN tree : tree[n] \in 0..MaxSkillScore

\* C7: for a profile with integer scores in [0,5] and any accuracy in [0,1],
\* every score update_tree returns is at most 5 and at least the input score.
C7_UpdateBounded ==
    (tphase = "out" /\ InRange(tree_in)) =>
        /\ DOMAIN tree_ret = DOMAIN tree_in
        /\ \A n \in DOMAIN tree_in :
              tree_ret[n] <= MaxSkillScore /\ tree_ret[n] >= tree_in[n]

\* a score of 4 under a perfect quiz: raised, and held at 5
C7_Witness ==
    /\ tphase = "out" /\ InRange(tree_in)
    /\ acc_in = Accuracy(2, 2)
    /\ \E n \in DOMAIN tree_in : tree_in[n] = 4 /\ tree_ret[n] = 5
    /\ \E n \in DOMAIN tree_in : tree_in[n] = 0 /\ tree_ret[n] = 2

\* C8: update_tree returns, for a node with score s < 5, min(5, s+2) at an
\* accuracy of exactly 1.0, min(5, s+1) at 0.8 <= accuracy < 1.0 and s below
\* 0.8; a node with score 5 keeps it; the result has the input's node names;
\* the mapping passed in is left as it was.
C8_UpdateRule ==
    tphase = "out" =>
        /\ DOMAIN tree_ret = DOMAIN tree_in
        /\ tree_arg = tree_in
        /\ \A n \in DOMAIN tree_in :
              LET sc == tree_in[n] IN
              /\ (sc < 5 /\ acc_in.num = acc_in.den) => tree_ret[n] = Min(5, sc + 2)
              /\ (sc < 5 /\ 5 * acc_in.num >= 4 * acc_in.den
                         /\ acc_in.num < acc_in.den) => tree_ret[n] = Min(5, sc + 1)
              /\ (sc < 5 /\ 5 * acc_in.num < 4 * acc_in.den) => tree_ret[n] = sc
              /\ sc = 5 => tree_ret[n] = 5

\* accuracy exactly 0.8 (4 of 5): one node raised by one, one node at 5 kept
C8_Witness ==
    /\ tphase = "out"
    /\ acc_in = Accuracy(4, 5)
    /\ DOMAIN tree_in = SkillNodes
    /\ \E n \in SkillNodes : tree_in[n] = 3 /\ tree_ret[n] = 4
    /\ \E n \in SkillNodes : tree_in[n] = 5 /\ tree_ret[n] = 5

\* C10: when the expert call of generate fails (no credential, a status
\* other than 200, no choices, a timeout, a transport failure, any other
\* exception, or a completion that is not JSON), generate returns the
\* profile that maps every configured node to 1.
C10_GenerateFallsBack ==
    (aphase = "out" /\ (~api_in.key \/ api_in.cond # "ok" \/ ~api_in.content.json))
        => /\ IsNone(api_out)
           /\ gen_out = PyDict(DefaultTree)

\* the call went through and the completion was not JSON
C10_Witness ==
    /\ aphase = "out"
    /\ api_in.key /\ api_in.cond = "ok" /\ ~api_in.content.json
    /\ gen_out = PyDict([n \in SkillNodes |-> 1])

----------------------------------------------------------------------------
(* Claims about the threshold-controlled loop of process *)

\* C5: when the loop of process has ended after an evaluation whose score
\* met the threshold, exactly one optimizer call followed that evaluation
\* and nothing else did: the last two calls of the run are that evaluation
\* and one optimization, at whichever iteration the threshold was met.
C5_OneMoreOptimization ==
    (ppc = "analyze" /\ evals # <<>> /\ ThresholdMet(evals[Len(evals)].score))
    => /\ Len(pcalls) >= 2
       /\ pcalls[Len(pcalls)] = "optimize"
       /\ pcalls[Len(pcalls) - 1] = "evaluate"
       /\ \A k \in 1..(Len(evals) - 1) : ~ThresholdMet(evals[k].score)

\* C6: the lesson plan handed on when the loop of process has ended is a
\* plan that was evaluated during the run, with the greatest score seen.
C6_HandsOnBestEvaluated ==
    (ppc = "analyze" /\ evals # <<>>) =>
        \E k \in DOMAIN evals :
            /\ evals[k].plan = lesson_plan
            /\ \A j \in DOMAIN evals : evals[j].score <= evals[k].score

Complete(tree) == InRange(tree) /\ SkillNodes \subseteq DOMAIN tree

\* C9: the current skill profile, wherever the session holds one (the
\* result of generate in process, the session entry, the tree final_plan
\* renders after update_tree), has every score in [0,5] and a score for
\* every configured node.
C9_ProfileInRange ==
    /\ ~IsNone(current_skill_tree) => Complete(current_skill_tree.val)
    /\ "current_skill_tree" \in s_has => Complete(s_current_skill_tree.val)
    /\ ("current_skill_tree" \in s_has /\ rendered.status # "none")
          => Complete(rendered.tree)

----------------------------------------------------------------------------
(* Claims about parse_ciddp_output *)

IsFullRubric(text) ==
    /\ text.kind = "rubric"
    /\ Len(text.lines) = 5
    /\ \A k \in 1..5 : /\ text.lines[k].shape = "scored"
                       /\ text.lines[k].key = RubricKeys[k]

RECURSIVE SumPoints(_)
SumPoints(ls) ==
    IF ls = <<>> THEN 0 ELSE ls[1].pts + SumPoints(Tail(ls))

IsScored(line) == line.shape = "scored"

\* C11: for a text holding exactly the five rubric lines C, I, D, P, Pe, five
\* times the average parse_ciddp_output returns equals the sum of the five
\* integers.
C11_AverageIsMean ==
    (parse_phase = "out" /\ IsFullRubric(parse_text)) =>
        /\ ~parse_raised
        /\ 5 * parse_ret.score = SumPoints(parse_text.lines)

\* C12: parse_ciddp_output raises for no text; the scores it returns are
\* those of the well-shaped lines alone (per key, the last such line); with
\* no well-shaped line the average is 0 and the scores map is empty, and
\* with at least one the scores map is not empty.
C12_ParserNeverRaises ==
    parse_phase = "out" =>
        LET lines == TextLines(parse_text)
            kept  == SelectSeq(lines, IsScored)
        IN  /\ ~parse_raised
            /\ DOMAIN parse_ret.scores = {kept[k].key : k \in DOMAIN kept}
            /\ \A k \in DOMAIN kept :
                  (\A j \in DOMAIN kept : kept[j].key = kept[k].key => j <= k)
                      => parse_ret.scores[kept[k].key] = kept[k].pts
            /\ kept = <<>> => (parse_ret.score = 0 /\ parse_ret.scores = EmptyDict)
            /\ kept # <<>> => parse_ret.scores # EmptyDict

----------------------------------------------------------------------------
(* Claims about the generation client *)

\* C13: with structured output requested, a completion that is not valid
\* JSON makes _call_api return a value other than the one it returns for
\* the completion "{}", which is the empty dict.
C13_ParseFailedDistinct ==
    (aphase = "out" /\ api_in.key /\ api_in.cond = "ok") =>
        /\ ~api_in.content.json => api_out # PyDict(EmptyDict)
        /\ (api_in.content.json /\ api_in.content.val = PyDict(EmptyDict))
              => api_out = PyDict(EmptyDict)

\* a 200 exchange whose completion is prose: None comes back
C13_Witness ==
    /\ aphase = "out"
    /\ api_in.key /\ api_in.cond = "ok" /\ api_in.content = Prose(Lp(0))
    /\ api_out = PyNone

\* the failure condition of an exchange, "none" when the call succeeds
FailureKind(in) ==
    IF ~in.key THEN "missing_credential"
    ELSE IF in.cond # "ok" THEN in.cond
    ELSE IF ~in.content.json THEN "json_decode"
    ELSE "none"

\* C14: two calls that fail under different failure conditions return
\* different values to the caller.
C14_DistinctErrorKinds ==
    (aphase = "out" /\ FailureKind(api_in) # "none") =>
        \A other \in [key : BOOLEAN, cond : ApiConditions,
                      content : {api_in.content, Prose(Lp(0))}] :
            FailureKind(other) \notin {"none", FailureKind(api_in)}
                => CallApi(other.key, other.cond, other.content, TRUE) # api_out

----------------------------------------------------------------------------
(* Claims about failures in run_optimization_core and its route *)

\* C16: when call_llm reports a request failure to the evaluator in
\* iteration k, run_optimization_core stops there: the failed evaluation is
\* the last call issued (no analyze, no optimize, no later evaluation) and
\* what is returned is the best candidate of the evaluations before it.
C16_EvalFailureStopsLoop ==
    (cpc = "returned" /\ failed_eval > 0) =>
        LET before == SubSeq(inserted, 1, failed_eval - 1) IN
        /\ Len(calls) = 3 * (failed_eval - 1) + 2
        /\ calls[Len(calls)] = "evaluate"
        /\ best_score = MaxOf(ScoresOf(before) \cup {0})
        /\ \/ \E k \in DOMAIN before :
                 before[k] = [lp |-> best_lp, score |-> best_score]
           \/ (best_score = 0 /\ best_lp \in {Lp(0), LlmError})

\* C19: when every generation call of an optimize_lesson request reported a
\* request failure the response has the status "error", and no response
\* with the status "success" carries the failure text as best_lesson_plan.
C19_ExplicitErrorStatus ==
    cpc = "responded" =>
        /\ (all_failed /\ calls # <<>>) => response.status = "error"
        /\ response.status = "success" => response.best_lesson_plan # LlmError

----------------------------------------------------------------------------
(* Claims about failures and logging in the session of main.py *)

\* the evaluator call of the run that came back falsy: position in pcalls
\* of the evaluation after the successful ones, 0 when every one succeeded
FailedEvaluation ==
    IF Count(pcalls, "evaluate") > Len(evals)
    THEN CHOOSE k \in DOMAIN pcalls :
            /\ pcalls[k] = "evaluate"
            /\ Count(SubSeq(pcalls, 1, k), "evaluate") = Len(evals) + 1
    ELSE 0

ProcessEnded == ppc = "idle" /\ p_result \in {"fatal", "redirect_quiz"}

\* C15: when an evaluation of the process loop fails, no evaluator or
\* optimizer call follows it; the handler goes on to the analyst and ends
\* with the redirect to the quiz, the session holding the plan current at
\* the failure and the score of the last successful evaluation (0.0 when
\* there was none).
C15_EvalFailureIsLoopFatal ==
    (ProcessEnded /\ FailedEvaluation > 0) =>
        /\ \A k \in (FailedEvaluation + 1)..Len(pcalls) :
              pcalls[k] \in {"analyze", "quizgen"}
        /\ Len(pcalls) > FailedEvaluation
        /\ pcalls[FailedEvaluation + 1] = "analyze"
        /\ p_result = "redirect_quiz"
        /\ s_final_lesson_plan.plan = lesson_plan
        /\ s_final_cidpp_score =
              (IF evals = <<>> THEN 0 ELSE evals[Len(evals)].score)

\* C17: when the analyst's call fails (None comes back) on a plan that is
\* there, process ends with the redirect to the quiz and the session holds
\* the optimized plan with no mistakes section.
C17_AnalystFailureIsEmptyResult ==
    (ProcessEnded /\ IsNone(error_dict) /\ ~IsNone(lesson_plan)) =>
        /\ p_result = "redirect_quiz"
        /\ s_final_lesson_plan = [plan |-> lesson_plan, tips |-> FALSE]

\* C18: save_session_log writes at most one record in a session, and only
\* once the pipeline has run and the quiz of the session has been graded.
C18_SingleLogRecord ==
    /\ session_logs <= 1
    /\ session_logs > 0 =>
          {"final_lesson_plan", "quiz_accuracy"} \subseteq s_has

----------------------------------------------------------------------------
(* Claims about select_analyst_question *)

Matching(bank, topic) == {k \in DOMAIN bank : bank[k].topic = topic}

\* C20: select_analyst_question returns a record of the bank with the
\* requested topic when there is one, otherwise some record of the bank when
\* the bank is not empty, otherwise None; a record returned is a member of
\* the bank and its question is the analyst's question, and None is
\* replaced by the placeholder question.
C20_SelectsMatchingQuestion ==
    sel_phase = "out" =>
        /\ Matching(questions_data, lesson_topic) # {} =>
              \E k \in Matching(questions_data, lesson_topic) :
                  analyst_q_data = questions_data[k]
        /\ (Matching(questions_data, lesson_topic) = {} /\ questions_data # <<>>) =>
              analyst_q_data \in Range(questions_data)
        /\ questions_data = <<>> =>
              (analyst_q_data = PyNone /\ analyst_q_text = PlaceholderQuestion)
        /\ analyst_q_data # PyNone =>
              /\ analyst_q_data \in Range(questions_data)
              /\ analyst_q_text = analyst_q_data.question

\* a bank with one record of the requested topic behind two of another
C20_Witness ==
    /\ sel_phase = "out"
    /\ lesson_topic = "Memory"
    /\ questions_data = <<QuestionRecord("Sync", "q1"), QuestionRecord("Sync", "q2"),
                          QuestionRecord("Memory", "q2")>>
    /\ analyst_q_data = QuestionRecord("Memory", "q2")
    /\ analyst_q_text = "q2"

----------------------------------------------------------------------------
(* Claims about grading and about the reported score *)

\* the grading call went through and the grader's text is the verdict
\* CORRECT (in either case)
JudgedCorrect(call) ==
    grade_key /\ call.cond = "ok" /\ Upper(call.chars) = CORRECT

\* C21: grade_answer returns True exactly when the grader's verdict is
\* CORRECT; it returns False for the verdict INCORRECT and for a failed
\* grading call, and the quiz accuracy counts the answers judged correct.
C21_GradesOnlyCorrect ==
    grade_phase = "out" =>
        /\ \A k \in DOMAIN grade_calls :
              /\ grade_rets[k] <=> JudgedCorrect(grade_calls[k])
              /\ grade_calls[k].chars = INCORRECT => ~grade_rets[k]
              /\ (~grade_key \/ grade_calls[k].cond # "ok") => ~grade_rets[k]
        /\ grade_accuracy =
              Accuracy(Cardinality({k \in DOMAIN grade_calls :
                                       JudgedCorrect(grade_calls[k])}),
                       Len(grade_calls))

\* C22: when process ends with the redirect to the quiz after at least one
\* evaluation, the score and the plan it stored belong to one candidate:
\* some evaluation of the run scored that very plan with that score.
C22_ScoreBelongsToPlan ==
    (ppc = "idle" /\ p_result = "redirect_quiz" /\ evals # <<>>) =>
        \E k \in DOMAIN evals :
            evals[k] = [plan |-> s_final_lesson_plan.plan,
                        score |-> s_final_cidpp_score]

====
